---- MODULE Spec2Model ----
(***************************************************************************)
(* ToyMotion: the project/frame store (src/utils/storage.ts) and the two   *)
(* screens that drive it, the home screen (src/app/index.tsx) and the      *)
(* camera screen (src/unnamed/part_004).                                   *)
(*                                                                         *)
(* The file system is the persistent state: the set of project             *)
(* directories, the content of each metadata.json and the set of frame     *)
(* files of each project.  Every file operation the code performs has an   *)
(* outcome drawn by the environment (it completes or it throws); the       *)
(* handlers are translated with their try/catch structure.                 *)
(*                                                                         *)
(* Specifications, all over the same variables:                            *)
(*   Spec          the store with the home and camera screens, each        *)
(*                 handler one step, file operations may fail              *)
(*   VoiceSpec     useVoiceCommands (src/unnamed/part_005): command        *)
(*                 dispatch, debounce, listening                           *)
(*   SessionSpec   useVoiceCommands session by session, the permission     *)
(*                 request answered in a later step than the press         *)
(*   PlaybackSpec  PlaybackScreen (src/unnamed/part_002)                   *)
(*   OverlapSpec   the camera handlers split at takePictureAsync, with     *)
(*                 the closures of each render                             *)
(*   PathSpec      the frame locations of the store                        *)
(***************************************************************************)
EXTENDS Integers, Sequences, FiniteSets, TLC

VARIABLES
    issued,      \* ids the id generator has handed out so far
    dirs,        \* ids whose directory projects/<id>/ (with frames/) exists
    meta,        \* id -> content of projects/<id>/metadata.json
    frames,      \* id -> names of the files present in projects/<id>/frames/
    now,         \* the wall clock (ms) as last read by new Date()
    screen,      \* which screen is on top of the navigation stack
    projects,    \* HomeScreen state `projects`
    projectId,   \* CameraScreen route parameter
    project,     \* CameraScreen state `project`
    cameraReady, \* CameraScreen state `cameraReady`
    capturing,   \* CameraScreen state `capturing`
    alert,       \* the title of the Alert.alert the last handler run raised
    steps,       \* handler runs that reached the file system for writing, so far
    faults,      \* operations of the platform that have thrown so far
    captures,    \* history: id -> successful captures since createProject with no
                 \* delete-last in between (-1: not counted)
    last,        \* history: the operation that produced this state
    \* useVoiceCommands (src/unnamed/part_005)
    isListening,     \* state `isListening`
    isAvailable,     \* state `isAvailable`
    lastCommand,     \* state `lastCommand`, the marker shown as feedback
    wantsListening,  \* ref `wantsListening`, the listening-intent flag
    lastCommandTime, \* ref `lastCommandTime`
    lastCommandRef,  \* ref `lastCommandRef`
    callbacks,       \* command -> the callback the latest render supplied
    onRef,           \* command -> onCaptureRef / onDeleteRef / onPlayRef .current
    timers,          \* due times of the pending setTimeout callbacks
    mounted,         \* the component using the hook is mounted
    recognizing,     \* a recognition session of the platform is running
    did,             \* history: what the last event of the hook called
    heard,           \* history: the last two recognition results handled
    \* PlaybackScreen (src/unnamed/part_002)
    pbMounted,       \* the playback screen is mounted
    playing,         \* state `playing`
    frameUris,       \* state `frames`: how many frame uris it holds
    loads,           \* loadData() calls whose awaits have not resolved yet
    intervalRef,     \* ref `intervalRef`: a timer id, or 0 for null
    intervals,       \* ids of the setInterval timers not cleared yet
    timerSeq,        \* the id the last setInterval returned
    pendingEffects,  \* effects scheduled by the last render, not run yet
    currentFrame,    \* state `currentFrame`
    timerFrames,     \* timer id -> frames.length in the closure of its callback
    \* useVoiceCommands and the recognizer, session by session
    requests,        \* requestPermissionsAsync() calls not answered yet
    sessionSeq,      \* the number of the last recognition session started
    events,          \* events the recognizer emitted, not handled yet
    restarts,        \* history: session -> start() calls made by the handlers
                     \* of the events that ended it
    \* CameraScreen, handler by handler
    inFlight,        \* the `project` of each handleCapture awaiting its photo
    handlers,        \* what the handlers of the committed render closed over
    refHandlers,     \* what the handlers held by the hook's refs closed over
    \* the store's frame locations
    located          \* history: the last call that addressed a frame file

hook == <<isListening, isAvailable, lastCommand, wantsListening, lastCommandTime,
          lastCommandRef, callbacks, onRef, timers, mounted, recognizing, did, heard>>

playback == <<pbMounted, playing, frameUris, loads, intervalRef, intervals,
              timerSeq, pendingEffects, currentFrame, timerFrames>>

sessions == <<requests, sessionSeq, events, restarts>>

overlap == <<inFlight, handlers, refHandlers>>

more == <<sessions, overlap, located>>

vars == <<issued, dirs, meta, frames, now, screen, projects, projectId,
          project, cameraReady, capturing, alert, steps, faults, captures, last,
          hook, playback, more>>

store == <<dirs, meta, frames>>

-----------------------------------------------------------------------------
(* Bounds of the model *)

MaxSteps == 2        \* handler runs that write: creates, deletes, captures, frame deletes
MaxFaults == 1       \* operations of the platform that throw

(* Program constants *)

MAX_FRAMES == 200    \* handleCapture: newFrameNum > 200
DEFAULT_FPS == 12    \* createProject: fps: 12
PAD_WIDTH == 3       \* padStart(3, '0')

ProjectIds == 1..(MaxSteps + 1)   \* the persisted project and one id per create

-----------------------------------------------------------------------------
(* interface ProjectMetadata, with a tag telling a parsed record from the   *)
(* other things a metadata file or a load can be.  The fields name and      *)
(* createdAt are written once by createProject and read by no operation of  *)
(* the store or of the handlers; they are left out.                         *)

ProjectMetadata(kind, id, updatedAt, frameCount, fps) ==
    [kind |-> kind, id |-> id, updatedAt |-> updatedAt,
     frameCount |-> frameCount, fps |-> fps]

NoFile    == ProjectMetadata("nofile", 0, 0, 0, 0)    \* metadata.json does not exist
Malformed == ProjectMetadata("malformed", 0, 0, 0, 0) \* content JSON.parse rejects
Null      == ProjectMetadata("null", 0, 0, 0, 0)      \* the value null
Thrown    == ProjectMetadata("thrown", 0, 0, 0, 0)    \* an exception leaving the call

-----------------------------------------------------------------------------
(* Frame file names: frame_NNN.jpg with NNN = String(n).padStart(3, '0').  *)
(* A file of the frames directory is named here by the string NNN.         *)

String(n) == ToString(n)

RECURSIVE padStart(_, _, _)
padStart(str, targetLength, padString) ==
    IF Len(str) >= targetLength THEN str
    ELSE padStart(padString \o str, targetLength, padString)

FrameName(frameNumber) == padStart(String(frameNumber), PAD_WIDTH, "0")

FrameNames(frameCount) == { FrameName(i) : i \in 1..frameCount }

-----------------------------------------------------------------------------
(* The clock: successive reads of new Date() never decrease, and two reads *)
(* may fall in the same millisecond.                                       *)

ClockReads == now..(now + 1)

-----------------------------------------------------------------------------
(* Outcomes of the file operations, drawn by the environment.              *)

WriteOutcomes == {"ok", "fail", "torn"}  \* File.write: done / throws, file untouched / throws, file left unparsable
CopyOutcomes == {"ok", "fail"}           \* File.copy: done / throws
DeleteOutcomes == {"ok", "fail"}         \* File.delete, Directory.delete: done / throws

(* metaFile.write(JSON.stringify(metadata)) on a file whose content is old *)
WriteFile(old, metadata, w) ==
    CASE w = "ok" -> metadata
      [] w = "fail" -> old
      [] w = "torn" -> Malformed

(* metaFile.text(): the content, or an exception when the read fails *)
FileText(content, readFails) == IF readFails THEN Thrown ELSE content

(* JSON.parse(data) *)
JSONParse(data) == IF data.kind = "malformed" THEN Thrown ELSE data

-----------------------------------------------------------------------------
(* src/utils/storage.ts.  The operators take the file system they act on   *)
(* as parameters so that a handler can chain them.                         *)

(* v4Style(): a randomized unique identifier, one never handed out before. *)
(* Identifiers are opaque, so the smallest unused one stands for any.       *)
v4Style == { id \in ProjectIds \ issued : \A other \in ProjectIds \ issued : id <= other }

(* the metadata createProject builds *)
createProjectMetadataOneFrame(id, updatedAt) ==
    ProjectMetadata("ok", id, updatedAt, 1, DEFAULT_FPS)

createProjectMetadata(id, updatedAt) ==
    ProjectMetadata("ok", id, updatedAt, 0, DEFAULT_FPS)

(* loadProject without its try/catch: what the try block evaluates to *)
loadProjectTry(m, id, readFails) ==
    IF m[id].kind = "nofile" THEN Null
    ELSE LET data == FileText(m[id], readFails)
         IN  IF data = Thrown THEN Thrown ELSE JSONParse(data)

loadProjectUncaught(m, id, readFails) == loadProjectTry(m, id, readFails)

loadProject(m, id, readFails) ==
    LET r == loadProjectTry(m, id, readFails)
    IN  IF r = Thrown THEN Null ELSE r

(* projects.sort((a, b) => Date(b.updatedAt) - Date(a.updatedAt)): a stable *)
(* sort, computed by insertion                                              *)
RECURSIVE insertSortedAscending(_, _)
insertSortedAscending(sorted, x) ==
    IF sorted = <<>> THEN <<x>>
    ELSE IF x.updatedAt - Head(sorted).updatedAt < 0
         THEN <<x>> \o sorted
         ELSE <<Head(sorted)>> \o insertSortedAscending(Tail(sorted), x)

RECURSIVE insertSorted(_, _)
insertSorted(sorted, x) ==
    IF sorted = <<>> THEN <<x>>
    ELSE IF Head(sorted).updatedAt - x.updatedAt < 0
         THEN <<x>> \o sorted
         ELSE <<Head(sorted)>> \o insertSorted(Tail(sorted), x)

sortByUpdatedAtKeepsOrder(ps) == ps

RECURSIVE sortByUpdatedAt(_)
sortByUpdatedAt(ps) ==
    IF ps = <<>> THEN <<>>
    ELSE insertSorted(sortByUpdatedAt(SubSeq(ps, 1, Len(ps) - 1)), ps[Len(ps)])

(* the loop of listProjects over the directory entries *)
RECURSIVE collectProjects(_, _, _)
collectProjects(m, entries, unreadable) ==
    IF entries = <<>> THEN <<>>
    ELSE LET loaded == loadProject(m, Head(entries), Head(entries) \in unreadable)
         IN  (IF loaded # Null THEN <<loaded>> ELSE <<>>)
             \o collectProjects(m, Tail(entries), unreadable)

listProjects(m, entries, unreadable, listFails) ==
    IF listFails THEN <<>>
    ELSE sortByUpdatedAt(collectProjects(m, entries, unreadable))

(* PROJECTS_DIR.list(): the directories, in an order the file system picks *)
DirectoryListings(d) ==
    { s \in [1..Cardinality(d) -> d] : \A i, j \in 1..Cardinality(d) : i # j => s[i] # s[j] }

(* the inputs the environment gives one listProjects call on the           *)
(* directories d: the order of the listing, the metadata files whose read  *)
(* throws, whether the listing itself throws                               *)
ListCalls(d, m) ==
    [entries : DirectoryListings(d),
     unreadable : SUBSET { id \in d : m[id].kind # "nofile" },
     listFails : BOOLEAN]

ListCost(c) == Cardinality(c.unreadable) + (IF c.listFails THEN 1 ELSE 0)

ListResult(m, c) == listProjects(m, c.entries, c.unreadable, c.listFails)

(* deleteProject(projectId): if (dir.exists) dir.delete().  The result says *)
(* whether the call threw and which directories exist after it;             *)
(* Directory.delete() throws on a directory that does not exist.            *)
deleteProjectUnchecked(d, id, del) ==
    IF id \in d /\ del = "ok"
    THEN [threw |-> FALSE, dirs |-> d \ {id}]
    ELSE [threw |-> TRUE, dirs |-> d]

deleteProject(d, id, del) ==
    IF id \in d
    THEN IF del = "ok"
         THEN [threw |-> FALSE, dirs |-> d \ {id}]
         ELSE [threw |-> TRUE, dirs |-> d]
    ELSE [threw |-> FALSE, dirs |-> d]

(* the files of the directories d: a deleted directory takes its subtree   *)
(* (metadata.json, frames/) with it                                        *)
Subtree(f, d, empty) == [id \in ProjectIds |-> IF id \in d THEN f[id] ELSE empty]

-----------------------------------------------------------------------------
(* History record of the operation that produced the state *)

Op(op, id, io, k) == [op |-> op, id |-> id, io |-> io, k |-> k]

NoCamera == /\ projectId' = 0
            /\ project' = Null
            /\ cameraReady' = FALSE
            /\ capturing' = FALSE

(* CameraScreen mounts for id: useState initial values, then the effect    *)
(* loadProjectData() on the file system <<m>>                              *)
MountCamera(m, id, readFails) ==
    /\ screen' = "camera"
    /\ projectId' = id
    /\ project' = loadProject(m, id, readFails)
    /\ cameraReady' = FALSE
    /\ capturing' = FALSE

-----------------------------------------------------------------------------
(* Initial values of the hook useVoiceCommands and of PlaybackScreen *)

Commands == {"capture", "delete", "play"}    \* type VoiceCommand
NoCommand == "null"                          \* VoiceCommand | null: null

(* what one event of the hook called: the callbacks it invoked, in order,   *)
(* each with the identity of the function called; how many times it called  *)
(* ExpoSpeechRecognitionModule.start and stop; whether it requested the     *)
(* permission                                                               *)
Called(invoked, starts, stops, asked) ==
    [invoked |-> invoked, starts |-> starts, stops |-> stops, asked |-> asked]

Nothing == Called(<<>>, 0, 0, FALSE)

(* useState / useRef initial values of useVoiceCommands; every callback is  *)
(* named by the number of the render that created it                        *)
VoiceCommandsInit ==
    /\ isListening = FALSE
    /\ isAvailable = TRUE
    /\ lastCommand = NoCommand
    /\ wantsListening = FALSE
    /\ lastCommandTime = 0
    /\ lastCommandRef = NoCommand
    /\ callbacks = [c \in Commands |-> 0]
    /\ onRef = [c \in Commands |-> 0]
    /\ timers = {}
    /\ mounted = TRUE
    /\ recognizing = FALSE
    /\ did = Nothing
    /\ heard = <<>>

(* useState / useRef initial values of PlaybackScreen after its first       *)
(* render: both effects are scheduled                                       *)
PlaybackInit ==
    /\ pbMounted = TRUE
    /\ playing = TRUE
    /\ frameUris = 0
    /\ loads = 0
    /\ intervalRef = 0
    /\ intervals = {}
    /\ timerSeq = 0
    /\ pendingEffects = {"project", "playback"}
    /\ currentFrame = 0
    /\ timerFrames = <<>>

(* no permission request pending, no recognition session started yet *)
SessionsInit ==
    /\ requests = 0
    /\ sessionSeq = 0
    /\ events = <<>>
    /\ restarts = <<>>

(* the values a handler created by a render closed over: handleCapture has  *)
(* the dependencies [project, capturing, cameraReady], handleDeleteLast     *)
(* [project]; cameraReady does not change while captures are possible       *)
Closure(p, c) == [project |-> p, capturing |-> c]

(* no capture in flight; the handlers are those of the render of project p *)
OverlapInit(p) ==
    /\ inFlight = <<>>
    /\ handlers = Closure(p, FALSE)
    /\ refHandlers = Closure(p, FALSE)

NoAlert == "none"

(* no frame file addressed yet *)
NoCall == [op |-> "none", projectId |-> 0, frameNumber |-> 0, uris |-> <<>>]

MoreInit(p) ==
    /\ alert = NoAlert
    /\ SessionsInit
    /\ OverlapInit(p)
    /\ located = NoCall

-----------------------------------------------------------------------------
(* The persisted project of an earlier session, one capture below the cap *)
PersistedFrames == MAX_FRAMES - 1
PersistedProject == ProjectMetadata("ok", 1, 0, PersistedFrames, DEFAULT_FPS)

Init ==
    /\ issued = {1}
    /\ dirs = {1}
    /\ meta = [i \in ProjectIds |-> IF i = 1 THEN PersistedProject ELSE NoFile]
    /\ frames = [i \in ProjectIds |-> IF i = 1 THEN FrameNames(PersistedFrames) ELSE {}]
    /\ captures = [i \in ProjectIds |-> IF i = 1 THEN PersistedFrames ELSE -1]
    /\ now = 0
    /\ screen = "home"
    /\ \E c \in ListCalls(dirs, meta) :          \* useFocusEffect: loadProjects()
         /\ ListCost(c) <= MaxFaults
         /\ faults = ListCost(c)
         /\ projects = ListResult(meta, c)
    /\ projectId = 0
    /\ project = Null
    /\ cameraReady = FALSE
    /\ capturing = FALSE
    /\ steps = 0
    /\ last = Op("init", 0, "ok", 0)
    /\ VoiceCommandsInit                \* not mounted by these screens' actions:
    /\ PlaybackInit                     \* held at their initial values
    /\ MoreInit(Null)

(* one more handler run that writes *)
Step == /\ steps < MaxSteps
        /\ steps' = steps + 1

(* n more operations throw *)
Fault(n) == /\ faults + n <= MaxFaults
            /\ faults' = faults + n

Cost(failed) == IF failed THEN 1 ELSE 0

(* loadProjects(): const list = await listProjects(); setProjects(list),   *)
(* on the file system <<d, m>>                                             *)
LoadProjects(d, m) ==
    \E c \in ListCalls(d, m) :
       /\ Fault(ListCost(c))
       /\ projects' = ListResult(m, c)

-----------------------------------------------------------------------------
(* src/app/index.tsx: HomeScreen *)

(* handleCreate: createProject(`My Animation ${count}`), then router.push  *)
(* to the camera screen, which mounts and loads the project.  When the     *)
(* metadata write throws, createProject rejects and nothing is pushed.     *)
HandleCreate ==
    /\ screen = "home"
    /\ Step
    /\ \E id \in v4Style, updatedAt \in ClockReads, w \in WriteOutcomes, readFails \in BOOLEAN :
         LET metadata == createProjectMetadata(id, updatedAt)
         IN  /\ issued' = issued \cup {id}
             /\ dirs' = dirs \cup {id}
             /\ frames' = [frames EXCEPT ![id] = {}]
             /\ meta' = [meta EXCEPT ![id] = WriteFile(NoFile, metadata, w)]
             /\ now' = updatedAt
             /\ IF w = "ok"
                THEN /\ MountCamera(meta', id, readFails)
                     /\ Fault(Cost(readFails))
                     /\ captures' = [captures EXCEPT ![id] = 0]
                ELSE /\ ~readFails
                     /\ Fault(1)
                     /\ captures' = [captures EXCEPT ![id] = -1]
                     /\ UNCHANGED <<screen, projectId, project, cameraReady, capturing>>
             /\ last' = Op("createProject", id, w, 0)
    /\ UNCHANGED <<projects, alert>>
    /\ UNCHANGED <<hook, playback, more>>

(* handleProjectPress: router.push to the camera screen of a listed project *)
HandleProjectPress ==
    /\ screen = "home"
    /\ \E i \in 1..Len(projects), readFails \in BOOLEAN :
         /\ MountCamera(meta, projects[i].id, readFails)
         /\ Fault(Cost(readFails))
         /\ last' = Op("loadProject", projects[i].id, IF readFails THEN "fail" ELSE "ok", 0)
    /\ UNCHANGED <<issued, dirs, meta, frames, now, projects, steps, captures, alert>>
    /\ UNCHANGED <<hook, playback, more>>

(* handleProjectLongPress on a listed project, and the alert's Delete      *)
(* button: await deleteProject(project.id); loadProjects()                 *)
HandleProjectLongPress ==
    /\ screen = "home"
    /\ Step
    /\ \E i \in 1..Len(projects), del \in DeleteOutcomes :
         LET id == projects[i].id
             r == deleteProject(dirs, id, del)
         IN  /\ dirs' = r.dirs
             /\ meta' = Subtree(meta, r.dirs, NoFile)
             /\ frames' = Subtree(frames, r.dirs, {})
             /\ captures' = Subtree(captures, r.dirs, -1)
             /\ IF r.threw
                THEN Fault(1) /\ UNCHANGED projects      \* the handler rejects
                ELSE LoadProjects(dirs', meta')
             /\ last' = Op("deleteProject", id,
                           IF r.threw THEN "fail"
                           ELSE IF id \in dirs THEN "ok" ELSE "absent", 0)
    /\ UNCHANGED <<issued, now, screen, projectId, project, cameraReady, capturing,
                   alert>>
    /\ UNCHANGED <<hook, playback, more>>

-----------------------------------------------------------------------------
(* src/unnamed/part_004: CameraScreen *)

(* <CameraView onCameraReady={() => setCameraReady(true)} /> *)
OnCameraReady ==
    /\ screen = "camera"
    /\ ~cameraReady
    /\ cameraReady' = TRUE
    /\ last' = Op("cameraReady", 0, "ok", 0)
    /\ UNCHANGED <<issued, dirs, meta, frames, now, screen, projects, projectId,
                   project, capturing, steps, faults, captures, alert>>
    /\ UNCHANGED <<hook, playback, more>>

(* the guard of handleCapture (cameraRef.current is set once the camera    *)
(* view is rendered, which cameraReady implies)                            *)
CaptureGuard == project # Null /\ ~capturing /\ cameraReady

(* the `updated` object both handlers build *)
Updated(p, frameCount, updatedAt) ==
    [p EXCEPT !.frameCount = frameCount, !.updatedAt = updatedAt]

(* addFrame(projectId, sourceUri, frameNumber): the frames directory after  *)
(* sourceFile.copy(destFile) completed                                      *)
addFrame(files, frameNumber) == files \cup {FrameName(frameNumber)}

(* deleteLastFrame(projectId, frameNumber): the frames directory after      *)
(* if (file.exists) file.delete() completed                                 *)
deleteFrameBelow(files, frameNumber) == files \ {FrameName(frameNumber - 1)}

deleteLastFrame(files, frameNumber) == files \ {FrameName(frameNumber)}

(* the frame number handleCapture hands to addFrame *)
NewFrameNumSkips(p) == p.frameCount + 2

NewFrameNum(p) == p.frameCount + 1

(* the frame-cap test of handleCapture *)
OverCapOffByOne(newFrameNum) == newFrameNum > MAX_FRAMES + 1

OverCap(newFrameNum) == newFrameNum > MAX_FRAMES

(* what handleCapture does after addFrame: `copied` tells whether addFrame  *)
(* returned (TRUE) or threw (FALSE, caught at line 90); the result is       *)
(* <<metadata file, in-memory project>>                                     *)
CaptureCommitUnguarded(copied, old, p, newFrameNum, updatedAt, w) ==
    LET updated == Updated(p, newFrameNum, updatedAt)
    IN  <<WriteFile(old, updated, w), IF w = "ok" THEN updated ELSE p>>

CaptureCommit(copied, old, p, newFrameNum, updatedAt, w) ==
    IF ~copied THEN <<old, p>>
    ELSE LET updated == Updated(p, newFrameNum, updatedAt)
         IN  <<WriteFile(old, updated, w), IF w = "ok" THEN updated ELSE p>>

(* handleCapture, from the button or from the voice command *)
HandleCapture ==
    /\ screen = "camera"
    /\ \/ /\ ~CaptureGuard                        \* line 59: return
          /\ UNCHANGED <<frames, meta, project, now, steps, faults, captures>>
          /\ last' = Op("capture", projectId, "guard", 0)
          /\ alert' = NoAlert
       \/ /\ CaptureGuard                         \* takePictureAsync returns nothing
          /\ UNCHANGED <<frames, meta, project, now, steps, faults, captures>>
          /\ last' = Op("capture", projectId, "none", project.frameCount)
          /\ alert' = NoAlert
       \/ /\ CaptureGuard                         \* takePictureAsync throws
          /\ Fault(1)
          /\ UNCHANGED <<frames, meta, project, now, steps, captures>>
          /\ last' = Op("capture", projectId, "throw", project.frameCount)
          /\ alert' = "Error"                     \* line 92, in the catch
       \/ /\ CaptureGuard
          /\ LET newFrameNum == NewFrameNum(project)
             IN  IF OverCap(newFrameNum)
                 THEN /\ UNCHANGED <<frames, meta, project, now, steps, faults, captures>>
                      /\ last' = Op("capture", projectId, "max", project.frameCount)
                      /\ alert' = "Maximum Frames"              \* line 75
                 ELSE \E copy \in CopyOutcomes, w \in WriteOutcomes, updatedAt \in ClockReads :
                        LET c == CaptureCommit(copy = "ok", meta[project.id], project,
                                               newFrameNum, updatedAt, w)
                            ok == copy = "ok" /\ w = "ok"
                        IN  /\ Step
                            /\ copy = "fail" => (w = "ok" /\ updatedAt = now)
                            /\ Fault(Cost(~ok))
                            /\ frames' = IF copy = "ok"
                                         THEN [frames EXCEPT ![project.id] = addFrame(@, newFrameNum)]
                                         ELSE frames
                            /\ meta' = [meta EXCEPT ![project.id] = c[1]]
                            /\ project' = c[2]
                            /\ now' = updatedAt
                            /\ captures' = IF ok /\ captures[project.id] >= 0
                                           THEN [captures EXCEPT ![project.id] = @ + 1]
                                           ELSE captures
                            /\ last' = Op("capture", projectId,
                                          IF copy = "fail" THEN "copy_fail"
                                          ELSE IF w = "ok" THEN "ok" ELSE "write_" \o w,
                                          project.frameCount)
                            \* addFrame or saveProjectMetadata threw: the catch
                            \* of line 90 raises the alert of line 92
                            /\ alert' = IF ok THEN NoAlert ELSE "Error"
    /\ UNCHANGED <<issued, dirs, screen, projects, projectId, cameraReady, capturing>>
    /\ UNCHANGED <<hook, playback, more>>

(* the guard of handleDeleteLast *)
DeleteGuard == project # Null /\ project.frameCount # 0

(* what handleDeleteLast does after deleteLastFrame: `deleted` tells whether *)
(* it returned (TRUE) or threw (FALSE: the handler rejects)                  *)
DeleteCommit(deleted, old, p, updatedAt, w) ==
    IF ~deleted THEN <<old, p>>
    ELSE LET updated == Updated(p, p.frameCount - 1, updatedAt)
         IN  <<WriteFile(old, updated, w), IF w = "ok" THEN updated ELSE p>>

(* handleDeleteLast, from the button or from the voice command; it has no  *)
(* try/catch and raises no alert: when deleteLastFrame or                   *)
(* saveProjectMetadata throws, the promise it returned rejects              *)
HandleDeleteLast ==
    /\ screen = "camera"
    /\ alert' = NoAlert
    /\ \/ /\ ~DeleteGuard                         \* line 98: return
          /\ UNCHANGED <<frames, meta, project, now, steps, faults, captures>>
          /\ last' = Op("deleteLast", projectId, "guard", 0)
       \/ /\ DeleteGuard
          /\ Step
          /\ \E del \in DeleteOutcomes, w \in WriteOutcomes, updatedAt \in ClockReads :
               LET c == DeleteCommit(del = "ok", meta[project.id], project, updatedAt, w)
                   ok == del = "ok" /\ w = "ok"
               IN  \* file.delete() can only throw when the file exists
                   /\ del = "fail" => /\ FrameName(project.frameCount) \in frames[project.id]
                                      /\ w = "ok" /\ updatedAt = now
                   /\ Fault(Cost(~ok))
                   /\ frames' = IF del = "ok"
                                THEN [frames EXCEPT ![project.id] = deleteLastFrame(@, project.frameCount)]
                                ELSE frames
                   /\ meta' = [meta EXCEPT ![project.id] = c[1]]
                   /\ project' = c[2]
                   /\ now' = updatedAt
                   /\ captures' = [captures EXCEPT ![project.id] = -1]
                   /\ last' = Op("deleteLast", projectId,
                                 IF del = "fail" THEN "delete_fail"
                                 ELSE IF w = "ok" THEN "ok" ELSE "write_" \o w,
                                 project.frameCount)
    /\ UNCHANGED <<issued, dirs, screen, projects, projectId, cameraReady, capturing>>
    /\ UNCHANGED <<hook, playback, more>>

(* the back button: router.back() unmounts the camera screen, the home     *)
(* screen regains focus and its focus effect runs loadProjects()           *)
GoBack ==
    /\ screen = "camera"
    /\ screen' = "home"
    /\ NoCamera
    /\ LoadProjects(dirs, meta)
    /\ last' = Op("back", 0, "ok", 0)
    /\ UNCHANGED <<issued, dirs, meta, frames, now, steps, captures>>
    /\ alert' = NoAlert                           \* the screen is gone
    /\ UNCHANGED <<hook, playback, more>>

-----------------------------------------------------------------------------
Next ==
    \/ HandleCreate
    \/ HandleProjectPress
    \/ HandleProjectLongPress
    \/ OnCameraReady
    \/ HandleCapture
    \/ HandleDeleteLast
    \/ GoBack

Spec == Init /\ [][Next]_vars

-----------------------------------------------------------------------------
(* Claims about the camera screen's handlers *)

(* C1: in every state reached by captures and delete-last-frame actions     *)
(* run one at a time (each file copy, file delete and metadata write may    *)
(* succeed or fail), the stored frameCount of a project equals the number   *)
(* of its frame files, and those are exactly the files numbered             *)
(* 1..frameCount.                                                           *)
C1_FrameCountMatchesFiles ==
    \A id \in dirs :
        meta[id].kind = "ok" => frames[id] = FrameNames(meta[id].frameCount)

(* C2: each successful capture increases the frameCount, stored and in      *)
(* memory, by exactly 1 and writes the frame file at index (previous        *)
(* frameCount + 1); after N successful captures on a freshly created        *)
(* project with no delete in between, N <= 200, the stored frameCount is N  *)
(* and a frame file exists for every index 1..N.                            *)
C2_Step ==
    (last'.op = "capture" /\ last'.io = "ok") =>
        LET id == project.id
            k == project.frameCount
        IN  /\ meta'[id].kind = "ok"
            /\ meta'[id].frameCount = k + 1
            /\ meta[id].kind = "ok" => meta'[id].frameCount = meta[id].frameCount + 1
            /\ project'.frameCount = k + 1
            /\ frames'[id] = frames[id] \cup {FrameName(k + 1)}
            /\ captures'[id] >= 0 =>
                  /\ captures'[id] <= MAX_FRAMES
                  /\ meta'[id].frameCount = captures'[id]
                  /\ FrameNames(captures'[id]) \subseteq frames'[id]

C2_SuccessfulCaptures == [][C2_Step]_vars

C2_Witness ==
    /\ last.op = "capture" /\ last.io = "ok"
    /\ captures[projectId] = 1
    /\ meta[projectId].frameCount = 1
    /\ frames[projectId] = {FrameName(1)}

(* C3: a delete-last-frame that completes on a project with frameCount      *)
(* k > 0 leaves frameCount k-1, stored and in memory, removes the frame     *)
(* file of index k and no other file; a delete-last-frame at frameCount 0   *)
(* returns at its guard and changes neither metadata nor any file.          *)
C3_Step ==
    last'.op = "deleteLast" =>
        /\ last'.io = "ok" =>
              LET id == project.id
                  k == project.frameCount
              IN  /\ k > 0
                  /\ meta'[id].kind = "ok"
                  /\ meta'[id].frameCount = k - 1
                  /\ project'.frameCount = k - 1
                  /\ FrameName(k) \notin frames'[id]
                  /\ frames'[id] = frames[id] \ {FrameName(k)}
                  /\ \A other \in ProjectIds \ {id} :
                        frames'[other] = frames[other] /\ meta'[other] = meta[other]
        /\ (project # Null /\ project.frameCount = 0) =>
              /\ last'.io = "guard"
              /\ UNCHANGED <<dirs, meta, frames, project>>

C3_DeleteLastFrame == [][C3_Step]_vars

C3_Witness ==
    /\ last.op = "deleteLast" /\ last.io = "ok"
    /\ last.k >= 3
    /\ meta[projectId].frameCount = last.k - 1
    /\ frames[projectId] = FrameNames(last.k - 1)

(* C4: the stored frameCount never exceeds 200; a capture attempted at      *)
(* frameCount = 200 writes no frame file and leaves the metadata unchanged. *)
C4_Bound == \A id \in ProjectIds : meta[id].frameCount <= MAX_FRAMES

C4_Step ==
    (last'.op = "capture" /\ project # Null /\ project.frameCount = MAX_FRAMES) =>
        UNCHANGED <<dirs, meta, frames, project>>

C4_FrameCap == []C4_Bound /\ [][C4_Step]_vars

C4_Witness ==
    /\ last.op = "capture" /\ last.io = "max"
    /\ meta[projectId].frameCount = MAX_FRAMES
    /\ frames[projectId] = FrameNames(MAX_FRAMES)

(* C5: when the file copy of a capture (addFrame) or the file delete of a   *)
(* delete-last-frame (deleteLastFrame) throws, the frameCount is left       *)
(* unchanged by that action, in the stored metadata and in the screen's     *)
(* in-memory project.                                                       *)
C5_Step ==
    last'.io \in {"copy_fail", "delete_fail"} =>
        /\ meta'[project.id] = meta[project.id]
        /\ project'.frameCount = project.frameCount

C5_FailedFileOperation == [][C5_Step]_vars

C5_Witness ==
    /\ last.op = "capture" /\ last.io = "copy_fail"
    /\ project # Null
    /\ project.frameCount = last.k

-----------------------------------------------------------------------------
(* Claims about the store *)

(* C6: loadProject(id) never throws: it returns the stored metadata when    *)
(* the metadata file exists, is read and parses, and null when the file is  *)
(* missing, unreadable or malformed; it modifies no stored state.           *)
C6_Result ==
    \A id \in ProjectIds, readFails \in BOOLEAN :
        LET r == loadProject(meta, id, readFails)
        IN  /\ r # Thrown
            /\ IF meta[id].kind = "ok" /\ ~readFails THEN r = meta[id] ELSE r = Null

C6_Step ==
    last'.op = "loadProject" =>
        /\ UNCHANGED <<dirs, meta, frames>>
        /\ project' = IF meta[last'.id].kind = "ok" /\ last'.io = "ok"
                      THEN meta[last'.id] ELSE Null

C6_LoadProject == []C6_Result /\ [][C6_Step]_vars

C6_Witness ==
    /\ last.op = "loadProject" /\ last.io = "fail"
    /\ meta[projectId].kind = "ok"
    /\ project = Null
    /\ loadProject(meta, projectId, TRUE) = Null
    /\ loadProject(meta, projectId, FALSE) = meta[projectId]

(* the ids a listProjects call enumerates and loads: none when the listing  *)
(* of the projects directory throws                                         *)
Loaded(d, m, c) ==
    IF c.listFails THEN {}
    ELSE { id \in d : m[id].kind = "ok" /\ id \notin c.unreadable }

(* r holds exactly one entry, the stored metadata, for each loaded id *)
ExactlyLoaded(r, d, m, c) ==
    /\ Len(r) = Cardinality(Loaded(d, m, c))
    /\ { r[i].id : i \in 1..Len(r) } = Loaded(d, m, c)
    /\ \A i \in 1..Len(r) : r[i] = m[r[i].id]

(* C7 as stated: listProjects returns exactly one entry for each project    *)
(* directory whose metadata loads, omits the others, and the result is      *)
(* strictly descending by updatedAt.                                        *)
C7_StrictlyDescending ==
    \A c \in ListCalls(dirs, meta) :
        LET r == ListResult(meta, c)
        IN  /\ ExactlyLoaded(r, dirs, meta, c)
            /\ \A i \in 1..(Len(r) - 1) : r[i].updatedAt > r[i + 1].updatedAt

(* C7 amended: listProjects returns exactly one entry for each project      *)
(* directory it enumerates whose metadata loads, omits the others, and      *)
(* the result is in non-increasing order of updatedAt: no entry has an      *)
(* updatedAt smaller than the entry after it.                               *)
C7_NonIncreasing ==
    \A c \in ListCalls(dirs, meta) :
        LET r == ListResult(meta, c)
        IN  /\ ExactlyLoaded(r, dirs, meta, c)
            /\ \A i \in 1..(Len(r) - 1) : r[i].updatedAt >= r[i + 1].updatedAt

C7_Witness ==
    /\ screen = "home"
    /\ Cardinality(dirs) = 3
    /\ \E id \in dirs : meta[id].kind # "ok"
    /\ Len(projects) = 2
    /\ projects[1].updatedAt > projects[2].updatedAt

(* the project P a create, a successful capture or a successful            *)
(* delete-last-frame has just stamped                                      *)
JustTouched ==
    /\ last.op \in {"createProject", "capture", "deleteLast"}
    /\ last.io = "ok"

(* C8 as stated: after P is created or modified, the next listProjects      *)
(* call (here: one in which nothing throws) returns P as its first element. *)
C8_TouchedIsFirst ==
    JustTouched =>
        \A c \in ListCalls(dirs, meta) :
            ListCost(c) = 0 =>
                LET r == ListResult(meta, c)
                IN  r # <<>> /\ r[1].id = last.id

(* C8 amended: after P is created or modified, a next listProjects call     *)
(* that enumerates the directory and reads P's metadata returns P, and      *)
(* every entry before P has an updatedAt at least as late as P's: P is      *)
(* first unless another project carries a timestamp as late as its own.     *)
C8_TouchedIsFirstAmongOlder ==
    JustTouched =>
        \A c \in ListCalls(dirs, meta) :
            (~c.listFails /\ last.id \notin c.unreadable) =>
                LET r == ListResult(meta, c)
                IN  \E i \in 1..Len(r) :
                       /\ r[i].id = last.id
                       /\ \A j \in 1..(i - 1) : r[j].updatedAt >= r[i].updatedAt
                       /\ (\A o \in dirs \ {last.id} :
                              meta[o].updatedAt < meta[last.id].updatedAt) => i = 1

C8_Witness ==
    /\ JustTouched
    /\ last.op = "capture"
    /\ \E o \in dirs \ {last.id} :
          meta[o].kind = "ok" /\ meta[o].updatedAt < meta[last.id].updatedAt

(* C9: deleteProject(id) removes the project's metadata and all its frame   *)
(* files, so that loadProject(id) returns null and listProjects no longer   *)
(* contains it; on an absent id it raises no error and changes nothing;     *)
(* no other project's metadata or frames are changed.                       *)
C9_Call ==
    \A id \in ProjectIds, del \in DeleteOutcomes :
        LET r == deleteProject(dirs, id, del)
            m == Subtree(meta, r.dirs, NoFile)
            f == Subtree(frames, r.dirs, {})
        IN  /\ id \notin dirs => (~r.threw /\ r.dirs = dirs /\ m = meta /\ f = frames)
            /\ \A o \in ProjectIds \ {id} :
                  m[o] = meta[o] /\ f[o] = frames[o] /\ (o \in r.dirs <=> o \in dirs)
            /\ (id \in dirs /\ ~r.threw) =>
                  /\ id \notin r.dirs /\ m[id] = NoFile /\ f[id] = {}
                  /\ \A readFails \in BOOLEAN : loadProject(m, id, readFails) = Null
                  /\ \A c \in ListCalls(r.dirs, m) :
                        \A i \in 1..Len(ListResult(m, c)) : ListResult(m, c)[i].id # id

C9_Step ==
    (last'.op = "deleteProject" /\ last'.io = "ok") =>
        LET id == last'.id
        IN  /\ id \in dirs /\ id \notin dirs'
            /\ meta'[id] = NoFile /\ frames'[id] = {}
            /\ \A i \in 1..Len(projects') : projects'[i].id # id
            /\ \A o \in ProjectIds \ {id} :
                  meta'[o] = meta[o] /\ frames'[o] = frames[o] /\ (o \in dirs' <=> o \in dirs)

C9_DeleteProject == []C9_Call /\ [][C9_Step]_vars

C9_Witness ==
    /\ last.op = "deleteProject" /\ last.io = "ok"
    /\ last.id \notin dirs
    /\ \E o \in dirs : meta[o].kind = "ok" /\ projects = <<meta[o]>>

(* C10: createProject never returns the id of a project that exists, so it  *)
(* overwrites no existing project's metadata or frames; the new project's   *)
(* stored metadata has frameCount = 0 and fps = 12, and it has no frame     *)
(* files.                                                                   *)
C10_Step ==
    last'.op = "createProject" =>
        LET id == last'.id
        IN  /\ id \notin dirs
            /\ dirs \subseteq dirs'
            /\ \A o \in ProjectIds \ {id} : meta'[o] = meta[o] /\ frames'[o] = frames[o]
            /\ last'.io = "ok" =>
                  /\ meta'[id].kind = "ok"
                  /\ meta'[id].id = id
                  /\ meta'[id].frameCount = 0
                  /\ meta'[id].fps = 12
                  /\ frames'[id] = {}

C10_CreateProject == [][C10_Step]_vars

C10_Witness ==
    /\ last.op = "createProject" /\ last.io = "ok"
    /\ Cardinality(dirs) >= 2
    /\ meta[last.id].frameCount = 0
    /\ meta[last.id].fps = 12
    /\ frames[last.id] = {}

-----------------------------------------------------------------------------
(* src/unnamed/part_005: the hook useVoiceCommands.  Its three callbacks    *)
(* are parameters: each is named by the render that created it, and an      *)
(* invocation is recorded in `did`.                                         *)

MaxEvents == 4       \* events the hook handles: presses, recognition events, renders, clock ticks
MaxRenders == 1      \* renders that hand the hook a new callback, per command

DEBOUNCE_MS == 1500  \* const DEBOUNCE_MS = 1500
MARKER_MS == 1200    \* setTimeout(() => setLastCommand(null), 1200)

COMMAND_MAP ==
    << [phrases |-> <<"take photo", "capture", "snap">>, command |-> "capture"],
       [phrases |-> <<"delete photo", "delete frame", "undo">>, command |-> "delete"],
       [phrases |-> <<"play", "preview">>, command |-> "play"] >>

(* String.prototype.toLowerCase, on the letters *)
UpperCase == "ABCDEFGHIJKLMNOPQRSTUVWXYZ"
LowerCase == "abcdefghijklmnopqrstuvwxyz"

RECURSIVE indexOf(_, _, _)
indexOf(str, ch, from) ==
    IF from > Len(str) THEN 0
    ELSE IF SubSeq(str, from, from) = ch THEN from
    ELSE indexOf(str, ch, from + 1)

toLowerCaseChar(ch) ==
    LET i == indexOf(UpperCase, ch, 1)
    IN  IF i = 0 THEN ch ELSE SubSeq(LowerCase, i, i)

RECURSIVE toLowerCase(_)
toLowerCase(str) ==
    IF str = "" THEN ""
    ELSE toLowerCaseChar(SubSeq(str, 1, 1)) \o toLowerCase(SubSeq(str, 2, Len(str)))

(* String.prototype.trim, on the space character *)
RECURSIVE trimStart(_)
trimStart(str) ==
    IF str # "" /\ SubSeq(str, 1, 1) = " " THEN trimStart(SubSeq(str, 2, Len(str))) ELSE str

RECURSIVE trimEnd(_)
trimEnd(str) ==
    IF str # "" /\ SubSeq(str, Len(str), Len(str)) = " "
    THEN trimEnd(SubSeq(str, 1, Len(str) - 1)) ELSE str

trim(str) == trimEnd(trimStart(str))

(* String.prototype.includes *)
includes(str, phrase) ==
    \E i \in 1..(Len(str) - Len(phrase) + 1) : SubSeq(str, i, i + Len(phrase) - 1) = phrase

(* the loops of matchCommand over the entries and their phrases *)
RECURSIVE matchEntries(_, _)
matchEntries(entries, lower) ==
    IF entries = <<>> THEN NoCommand
    ELSE IF \E i \in 1..Len(Head(entries).phrases) : includes(lower, Head(entries).phrases[i])
         THEN Head(entries).command
         ELSE matchEntries(Tail(entries), lower)

matchCommandCaseSensitive(transcript) == matchEntries(COMMAND_MAP, trim(transcript))

matchCommand(transcript) == matchEntries(COMMAND_MAP, trim(toLowerCase(transcript)))

(* the transcripts the recognizer delivers *)
Transcripts ==
    {"take photo", "snap", "capture", "foo bar", "delete", "undo", "play",
     " Preview SNAP ", ""}

(* the error codes the recognizer delivers *)
ErrorCodes == {"no-speech", "not-allowed", "service-not-allowed", "network"}

(* time passing between two events, in ms *)
Delays == {1200, 1500}

(* one more event handled by the hook *)
Event == /\ steps < MaxEvents
         /\ steps' = steps + 1

(* the camera screen, the store and the playback screen stay as they are *)
OnlyHook ==
    UNCHANGED <<issued, dirs, meta, frames, screen, projects, projectId, project,
                cameraReady, capturing, alert, faults, captures, playback, more>>

(* the effects of the last render have run.  React runs them shortly after *)
(* the render is committed, and before it handles a press, unmounts or      *)
(* renders again; an event of the recognizer or a timer that is already     *)
(* queued can be handled before them.                                       *)
EffectsFlushed == onRef = callbacks

(* the test of executeCommand that debounces a duplicate *)
DebouncedAnyCommand(cmd, t) == t - lastCommandTime < DEBOUNCE_MS

DebouncedNever(cmd, t) == FALSE

Debounced(cmd, t) == t - lastCommandTime < DEBOUNCE_MS /\ lastCommandRef = cmd

(* the callback the switch of executeCommand calls for cmd *)
SwitchAlwaysCapture(cmd) == <<[cmd |-> "capture", fn |-> onRef["capture"]]>>

Switch(cmd) == <<[cmd |-> cmd, fn |-> onRef[cmd]]>>

(* the delay executeCommand gives the timer that clears the marker *)
MarkerDue(t) == t + MARKER_MS

(* executeCommand(cmd), with Date.now() = now *)
executeCommand(cmd) ==
    IF Debounced(cmd, now)
    THEN /\ UNCHANGED <<lastCommandTime, lastCommandRef, lastCommand, timers>>
         /\ did' = Nothing
    ELSE /\ lastCommandTime' = now
         /\ lastCommandRef' = cmd
         /\ lastCommand' = cmd
         /\ did' = Called(Switch(cmd), 0, 0, FALSE)
         /\ timers' = timers \cup {MarkerDue(now)}

(* the last two results, for the scenarios about two results in a row:     *)
(* the transcript, what it resolved to, when, the callbacks it invoked;     *)
(* `fresh` tells that no command was executed in the DEBOUNCE_MS before     *)
Heard(transcript, cmd, invoked) ==
    [transcript |-> transcript, cmd |-> cmd, at |-> now, invoked |-> invoked,
     fresh |-> (lastCommandRef = NoCommand \/ now - lastCommandTime >= DEBOUNCE_MS)]

LastTwo(h) == IF Len(h) > 2 THEN Tail(h) ELSE h

(* useSpeechRecognitionEvent('result', ...) *)
OnResult ==
    /\ mounted /\ recognizing
    /\ Event
    /\ \E transcript \in Transcripts :
         LET cmd == matchCommand(transcript)
         IN  /\ IF transcript = "" \/ cmd = NoCommand
                THEN /\ UNCHANGED <<lastCommandTime, lastCommandRef, lastCommand, timers>>
                     /\ did' = Nothing
                ELSE executeCommand(cmd)
             /\ heard' = LastTwo(Append(heard, Heard(transcript, cmd, did'.invoked)))
             /\ last' = Op("result", 0, transcript, 0)
    /\ UNCHANGED <<isListening, isAvailable, wantsListening, callbacks, onRef,
                   mounted, recognizing, now>>
    /\ OnlyHook

(* whether the 'end' handler and the 'no-speech' branch restart *)
RestartsAlways(wants) == TRUE

Restarts(wants) == wants

(* useSpeechRecognitionEvent('end', ...): the session is over; it is       *)
(* restarted when listening is still wanted                                 *)
OnEnd ==
    /\ mounted /\ recognizing
    /\ Event
    /\ IF Restarts(wantsListening)
       THEN /\ recognizing' = TRUE               \* startRecognition()
            /\ did' = Called(<<>>, 1, 0, FALSE)
            /\ UNCHANGED isListening
       ELSE /\ recognizing' = FALSE
            /\ did' = Nothing
            /\ isListening' = FALSE
    /\ last' = Op("end", 0, "end", 0)
    /\ UNCHANGED <<isAvailable, lastCommand, wantsListening, lastCommandTime,
                   lastCommandRef, callbacks, onRef, timers, mounted, heard, now>>
    /\ OnlyHook

(* the errors that revoke the permission *)
PermissionErrorNever(error) == FALSE

PermissionError(error) == error \in {"not-allowed", "service-not-allowed"}

(* useSpeechRecognitionEvent('error', ...) *)
OnError ==
    /\ mounted /\ recognizing
    /\ Event
    /\ \E error \in ErrorCodes :
         /\ IF Restarts(wantsListening) /\ error = "no-speech"
            THEN /\ did' = Called(<<>>, 1, 0, FALSE)   \* startRecognition()
                 /\ UNCHANGED <<isAvailable, wantsListening, isListening>>
            ELSE IF PermissionError(error)
            THEN /\ isAvailable' = FALSE
                 /\ wantsListening' = FALSE
                 /\ isListening' = FALSE
                 /\ did' = Nothing
            ELSE /\ did' = Nothing
                 /\ UNCHANGED <<isAvailable, wantsListening, isListening>>
         /\ last' = Op("error", 0, error, 0)
    /\ UNCHANGED <<lastCommand, lastCommandTime, lastCommandRef, callbacks, onRef,
                   timers, mounted, recognizing, heard, now>>
    /\ OnlyHook

(* what toggleListening does with the answer to its permission request *)
GrantedIgnored(granted) == TRUE

Granted(granted) == granted

(* toggleListening, from the mic button, which is rendered while           *)
(* isAvailable; the permission dialog is modal, so the press and the        *)
(* answer are one step                                                      *)
ToggleListening ==
    /\ mounted /\ isAvailable
    /\ EffectsFlushed
    /\ Event
    /\ IF wantsListening
       THEN /\ wantsListening' = FALSE
            /\ isListening' = FALSE
            /\ did' = Called(<<>>, 0, 1, FALSE)        \* stop(): 'end' follows
            /\ last' = Op("toggle", 0, "stop", 0)
            /\ UNCHANGED <<isAvailable, recognizing>>
       ELSE \E granted \in BOOLEAN :
              /\ last' = Op("toggle", 0, IF granted THEN "granted" ELSE "denied", 0)
              /\ IF ~Granted(granted)
                 THEN /\ isAvailable' = FALSE
                      /\ did' = Called(<<>>, 0, 0, TRUE)
                      /\ UNCHANGED <<wantsListening, isListening, recognizing>>
                 ELSE /\ wantsListening' = TRUE
                      /\ isListening' = TRUE
                      /\ recognizing' = TRUE           \* startRecognition()
                      /\ did' = Called(<<>>, 1, 0, TRUE)
                      /\ UNCHANGED isAvailable
    /\ UNCHANGED <<lastCommand, lastCommandTime, lastCommandRef, callbacks, onRef,
                   timers, mounted, heard, now>>
    /\ OnlyHook

(* the clean-up of the hook on unmount; the listeners go with the component *)
Unmount ==
    /\ mounted
    /\ EffectsFlushed
    /\ Event
    /\ mounted' = FALSE
    /\ wantsListening' = FALSE
    /\ recognizing' = FALSE
    /\ did' = Called(<<>>, 0, 1, FALSE)
    /\ last' = Op("unmount", 0, "unmount", 0)
    /\ UNCHANGED <<isListening, isAvailable, lastCommand, lastCommandTime,
                   lastCommandRef, callbacks, onRef, timers, heard, now>>
    /\ OnlyHook

(* a render of the component that hands the hook a new callback for one    *)
(* command; the effects of lines 48-50 are scheduled, and React runs the    *)
(* effects of a render before it renders again                              *)
Render ==
    /\ mounted
    /\ EffectsFlushed
    /\ Event
    /\ \E c \in Commands :
         /\ callbacks[c] < MaxRenders
         /\ callbacks' = [callbacks EXCEPT ![c] = @ + 1]
         /\ last' = Op("render", 0, c, 0)
    /\ did' = Nothing
    /\ UNCHANGED <<isListening, isAvailable, lastCommand, wantsListening,
                   lastCommandTime, lastCommandRef, onRef, timers, mounted,
                   recognizing, heard, now>>
    /\ OnlyHook

(* the effects of lines 48-50 run: onCaptureRef.current = onCapture, ...   *)
RunEffects ==
    /\ mounted
    /\ ~EffectsFlushed
    /\ onRef' = callbacks
    /\ did' = Nothing
    /\ last' = Op("effects", 0, "effects", 0)
    /\ UNCHANGED <<isListening, isAvailable, lastCommand, wantsListening,
                   lastCommandTime, lastCommandRef, callbacks, timers, mounted,
                   recognizing, heard, now, steps>>
    /\ OnlyHook

(* a timer set by executeCommand fires, not before it is due:              *)
(* setLastCommand(null), which an unmounted component ignores               *)
TimerFires ==
    /\ \E due \in timers :
         /\ due <= now
         /\ timers' = timers \ {due}
    /\ lastCommand' = IF mounted THEN NoCommand ELSE lastCommand
    /\ did' = Nothing
    /\ last' = Op("timer", 0, "timer", 0)
    /\ UNCHANGED <<isListening, isAvailable, wantsListening, lastCommandTime,
                   lastCommandRef, callbacks, onRef, mounted, recognizing, heard,
                   now, steps>>
    /\ OnlyHook

(* time passes *)
Tick ==
    /\ EffectsFlushed
    /\ Event
    /\ \E d \in Delays : now' = now + d
    /\ did' = Nothing
    /\ last' = Op("tick", 0, "tick", 0)
    /\ UNCHANGED <<isListening, isAvailable, lastCommand, wantsListening,
                   lastCommandTime, lastCommandRef, callbacks, onRef, timers,
                   mounted, recognizing, heard>>
    /\ OnlyHook

(* the camera screen open on the persisted project, the hook just mounted; *)
(* the clock starts one debounce interval after the epoch                   *)
VoiceInit ==
    /\ issued = {1}
    /\ dirs = {1}
    /\ meta = [i \in ProjectIds |-> IF i = 1 THEN PersistedProject ELSE NoFile]
    /\ frames = [i \in ProjectIds |-> IF i = 1 THEN FrameNames(PersistedFrames) ELSE {}]
    /\ captures = [i \in ProjectIds |-> -1]
    /\ now = DEBOUNCE_MS
    /\ screen = "camera"
    /\ projects = <<PersistedProject>>
    /\ projectId = 1
    /\ project = PersistedProject
    /\ cameraReady = TRUE
    /\ capturing = FALSE
    /\ steps = 0
    /\ faults = 0
    /\ last = Op("mount", 0, "mount", 0)
    /\ VoiceCommandsInit
    /\ PlaybackInit
    /\ MoreInit(PersistedProject)

VoiceNext ==
    \/ OnResult
    \/ OnEnd
    \/ OnError
    \/ ToggleListening
    \/ Unmount
    \/ Render
    \/ RunEffects
    \/ TimerFires
    \/ Tick

VoiceSpec == VoiceInit /\ [][VoiceNext]_vars

-----------------------------------------------------------------------------
(* Claims about the voice command dispatcher *)

(* whether the lower-cased, trimmed transcript contains a phrase of the     *)
(* n-th table entry                                                          *)
ContainsPhraseOf(n, transcript) ==
    \E i \in 1..Len(COMMAND_MAP[n].phrases) :
       includes(trim(toLowerCase(transcript)), COMMAND_MAP[n].phrases[i])

FirstEntryContained(transcript) ==
    IF ContainsPhraseOf(1, transcript) THEN "capture"
    ELSE IF ContainsPhraseOf(2, transcript) THEN "delete"
    ELSE IF ContainsPhraseOf(3, transcript) THEN "play"
    ELSE NoCommand

(* C11: matchCommand lower-cases and trims the transcript and returns the   *)
(* command of the first table entry (capture, delete, play) one of whose    *)
(* phrases it contains, and no command when it contains none: "take photo"  *)
(* and "snap" give capture, "foo bar" gives none, a transcript with phrases *)
(* of several commands gives the one earliest in the table.                 *)
C11_MatchCommand ==
    \A i \in 1..Len(heard) :
       LET t == heard[i].transcript
           cmd == heard[i].cmd
       IN  /\ cmd = FirstEntryContained(t)
           /\ t \in {"take photo", "snap"} => cmd = "capture"
           /\ t = "foo bar" => cmd = NoCommand
           /\ t = " Preview SNAP " => cmd = "capture"

C11_Witness ==
    /\ Len(heard) = 2
    /\ heard[1].transcript = " Preview SNAP " /\ heard[1].cmd = "capture"
    /\ heard[2].transcript = "foo bar" /\ heard[2].cmd = NoCommand
    /\ lastCommand = "capture"

(* the dispatcher state executeCommand and the handlers work on *)
dispatcher == <<isListening, isAvailable, lastCommand, wantsListening,
                lastCommandTime, lastCommandRef, onRef, timers, recognizing>>

(* C12: a matched command is suppressed (no callback, no state change) if   *)
(* and only if it equals the immediately preceding executed command and     *)
(* less than 1500 ms have passed since that command executed; a command     *)
(* that differs from the preceding executed one is always executed.         *)
(* lastCommandRef and lastCommandTime are that command and its time: they   *)
(* are written exactly when a command is executed.                          *)
C12_Step ==
    (last'.op = "result" /\ matchCommand(last'.io) # NoCommand) =>
        LET cmd == matchCommand(last'.io)
            repeat == cmd = lastCommandRef /\ now - lastCommandTime < 1500
        IN  /\ repeat => (did'.invoked = <<>> /\ UNCHANGED dispatcher)
            /\ ~repeat => (Len(did'.invoked) = 1 /\ did'.invoked[1].cmd = cmd)
            /\ cmd # lastCommandRef => did'.invoked # <<>>

C12_Refs ==
    /\ did'.invoked # <<>> =>
          (lastCommandRef' = did'.invoked[1].cmd /\ lastCommandTime' = now')
    /\ did'.invoked = <<>> => UNCHANGED <<lastCommandRef, lastCommandTime>>

C12_Debounce == [][C12_Step /\ C12_Refs]_vars

C12_Witness ==
    /\ last.op = "result"
    /\ Len(heard) = 2
    /\ heard[1].cmd = "capture" /\ heard[1].invoked # <<>>
    /\ heard[2].cmd = "capture" /\ heard[2].invoked = <<>>
    /\ heard[2].at - heard[1].at = 1200

(* two results in a row, t1 then t2 less than 1500 ms later, with no        *)
(* command executed in the 1500 ms before t1                                *)
InARow(t1, t2) ==
    /\ last.op = "result"
    /\ Len(heard) = 2
    /\ heard[1].fresh
    /\ heard[1].transcript = t1
    /\ heard[2].transcript = t2
    /\ heard[2].at - heard[1].at < 1500

(* the callbacks the two results invoked, in order *)
InvokedInARow == [i \in 1..Len(heard[1].invoked \o heard[2].invoked) |->
                     (heard[1].invoked \o heard[2].invoked)[i].cmd]

C14_Step ==
    last'.op = "result" =>
        LET cmd == matchCommand(last'.io)
            executes == /\ cmd # NoCommand
                        /\ ~(cmd = lastCommandRef /\ now - lastCommandTime < 1500)
        IN  /\ executes => /\ Len(did'.invoked) = 1
                           /\ did'.invoked[1].cmd = cmd
                           /\ did'.invoked[1].fn = onRef[cmd]
            /\ ~executes => (did'.invoked = <<>> /\ UNCHANGED dispatcher)

C14_Dispatch == [][C14_Step]_vars

C14_Witness ==
    /\ last.op = "result" /\ last.io = "play"
    /\ did.invoked = <<[cmd |-> "play", fn |-> onRef["play"]]>>
    /\ Len(heard) = 2 /\ heard[1].cmd = NoCommand /\ heard[1].invoked = <<>>

(* C15: whenever the dispatcher executes a command, the callback it         *)
(* invokes is the one the latest render supplied, never an earlier one,     *)
(* for any interleaving of re-renders with recognition results.             *)
C15_CurrentCallback ==
    \A i \in 1..Len(did.invoked) : did.invoked[i].fn = callbacks[did.invoked[i].cmd]

(* C16: when the permission request of toggling listening on is denied,     *)
(* the dispatcher stays idle (isListening false, intent false, no session   *)
(* started) and the feature is marked unavailable; once unavailable it      *)
(* never becomes available again and permission is never requested again.   *)
C16_Step ==
    /\ (last'.op = "toggle" /\ last'.io = "denied") =>
          /\ ~wantsListening /\ did'.asked
          /\ ~isListening' /\ ~wantsListening'
          /\ did'.starts = 0 /\ recognizing' = recognizing
          /\ ~isAvailable'
    /\ ~isAvailable => (~isAvailable' /\ ~did'.asked)

Listening == wantsListening /\ isListening

(* C17: from listening, an explicit toggle or a permission error            *)
(* (not-allowed, service-not-allowed) moves the dispatcher to idle, intent  *)
(* cleared and isListening false; a recognition result, a session end, a    *)
(* no-speech error or another error leaves it listening.                    *)
C17_Step ==
    Listening =>
        /\ (\/ last'.op = "toggle"
            \/ (last'.op = "error" /\ last'.io \in {"not-allowed", "service-not-allowed"}))
              => (~wantsListening' /\ ~isListening')
        /\ (\/ last'.op \in {"result", "end"}
            \/ (last'.op = "error" /\ last'.io \notin {"not-allowed", "service-not-allowed"}))
              => (wantsListening' /\ isListening')

C17_ListeningToIdle == [][C17_Step]_vars

C17_Witness ==
    /\ last.op = "error" /\ last.io = "service-not-allowed"
    /\ ~wantsListening /\ ~isListening /\ ~isAvailable
    /\ heard # <<>>

(* C18: on every session end and every no-speech error, recognition is      *)
(* restarted if and only if the intent flag is set at that moment; once     *)
(* the intent is cleared no session end or error restarts recognition       *)
(* until the user toggles listening on again.                               *)
C18_Step ==
    /\ (last'.op = "end" \/ (last'.op = "error" /\ last'.io = "no-speech")) =>
          did'.starts = (IF wantsListening THEN 1 ELSE 0)
    /\ (last'.op \in {"end", "error"} /\ ~wantsListening) =>
          (did'.starts = 0 /\ ~wantsListening')
    /\ (~wantsListening /\ wantsListening') =>
          (last'.op = "toggle" /\ last'.io = "granted")

C18_Restart == [][C18_Step]_vars

C18_Witness ==
    /\ last.op = "end"
    /\ mounted /\ ~wantsListening /\ ~isListening /\ ~recognizing
    /\ did.starts = 0
    /\ isAvailable

(* C20: after every executed command the last-command marker holds that     *)
(* command for the full 1200 ms following its execution, unless a later     *)
(* executed command replaces it, whatever executed shortly before.          *)
C20_MarkerHeld ==
    (mounted /\ lastCommandRef # NoCommand /\ now - lastCommandTime < 1200) =>
        lastCommand = lastCommandRef

-----------------------------------------------------------------------------
(* src/unnamed/part_002: PlaybackScreen.  A timer is named by the id        *)
(* setInterval returned for it; `intervals` holds the timers the platform   *)
(* still runs.  The callback of a timer advances currentFrame with the      *)
(* `frames` of the render whose effect created the timer.                   *)

MaxActs == 5         \* presses, project changes, loads resolving and unmounts of the playback screen

(* the frame counts a loaded project can have *)
FrameCounts == {0, 2}

(* stopPlayback() on the ref and the running timers: <<ref, timers>> *)
stopPlaybackForgetsTimer(ref, running) == <<0, running>>

stopPlayback(ref, running) ==
    IF ref # 0 THEN <<0, running \ {ref}>> ELSE <<ref, running>>

(* startPlayback(), setInterval returning id *)
startPlayback(ref, running, id) ==
    LET stopped == stopPlayback(ref, running)
    IN  <<id, stopped[2] \cup {id}>>

(* the effect of lines 157-164, its clean-up first *)
playbackEffect(ref, running, id) ==
    LET cleaned == stopPlayback(ref, running)
    IN  IF playing /\ frameUris > 0
        THEN startPlayback(cleaned[1], cleaned[2], id)
        ELSE stopPlayback(cleaned[1], cleaned[2])

(* the clean-up of the effect of lines 152-155 *)
projectCleanup(ref, running) == stopPlayback(ref, running)

(* one more thing happens to the playback screen *)
Act == /\ steps < MaxActs
       /\ steps' = steps + 1

OnlyPlayback ==
    UNCHANGED <<issued, dirs, meta, frames, now, screen, projects, projectId, project,
                cameraReady, capturing, alert, faults, captures, hook, more>>

(* the effects scheduled by the last render run: the clean-ups of the      *)
(* effects that run again, then the effects.  The project effect calls      *)
(* loadData(), the playback effect starts or stops the timer.               *)
RunPlaybackEffects ==
    /\ pbMounted
    /\ pendingEffects # {}
    /\ LET c1 == IF "project" \in pendingEffects
                 THEN projectCleanup(intervalRef, intervals)
                 ELSE <<intervalRef, intervals>>
           c2 == IF "playback" \in pendingEffects
                 THEN playbackEffect(c1[1], c1[2], timerSeq + 1)
                 ELSE c1
       IN  /\ intervalRef' = c2[1]
           /\ intervals' = c2[2]
           /\ timerSeq' = IF c2[1] \notin {0, intervalRef} THEN timerSeq + 1 ELSE timerSeq
           /\ timerFrames' = IF c2[1] \notin {0, intervalRef}
                             THEN Append(timerFrames, frameUris)   \* the callback of line 179
                             ELSE timerFrames
    /\ loads' = IF "project" \in pendingEffects THEN loads + 1 ELSE loads
    /\ pendingEffects' = {}
    /\ last' = Op("effects", 0, "playback", 0)
    /\ UNCHANGED <<pbMounted, playing, frameUris, steps, currentFrame>>
    /\ OnlyPlayback

(* loadData() resumes after its awaits: loadProject gave null, or a        *)
(* project whose frame uris are set (a new array, so the playback effect    *)
(* is scheduled); an unmounted screen ignores the state updates.  React     *)
(* runs the effects of a render before it renders again.                    *)
LoadResolves ==
    /\ loads > 0
    /\ pendingEffects = {}
    /\ Act
    /\ loads' = loads - 1
    /\ \E found \in BOOLEAN, frameCount \in FrameCounts :
         IF found /\ pbMounted
         THEN /\ frameUris' = frameCount
              /\ pendingEffects' = {"playback"}
              /\ last' = Op("loaded", 0, "found", frameCount)
         ELSE /\ frameCount = 0
              /\ UNCHANGED <<frameUris, pendingEffects>>
              /\ last' = Op("loaded", 0, IF found THEN "unmounted" ELSE "null", 0)
    /\ UNCHANGED <<pbMounted, playing, intervalRef, intervals, timerSeq,
                   currentFrame, timerFrames>>
    /\ OnlyPlayback

(* togglePlay: setPlaying(!playing) *)
TogglePlay ==
    /\ pbMounted
    /\ pendingEffects = {}
    /\ Act
    /\ playing' = ~playing
    /\ pendingEffects' = {"playback"}
    /\ last' = Op("togglePlay", 0, IF playing THEN "pause" ELSE "play", 0)
    /\ UNCHANGED <<pbMounted, frameUris, loads, intervalRef, intervals, timerSeq,
                   currentFrame, timerFrames>>
    /\ OnlyPlayback

(* the route parameter projectId changes: the project effect is scheduled *)
ProjectChange ==
    /\ pbMounted
    /\ pendingEffects = {}
    /\ Act
    /\ pendingEffects' = {"project"}
    /\ last' = Op("projectChange", 0, "projectId", 0)
    /\ UNCHANGED <<pbMounted, playing, frameUris, loads, intervalRef, intervals,
                   timerSeq, currentFrame, timerFrames>>
    /\ OnlyPlayback

(* the screen unmounts: the clean-ups of both effects run *)
UnmountPlayback ==
    /\ pbMounted
    /\ pendingEffects = {}
    /\ Act
    /\ pbMounted' = FALSE
    /\ LET c1 == projectCleanup(intervalRef, intervals)
           c2 == stopPlayback(c1[1], c1[2])
       IN  /\ intervalRef' = c2[1]
           /\ intervals' = c2[2]
    /\ last' = Op("unmountPlayback", 0, "unmount", 0)
    /\ UNCHANGED <<playing, frameUris, loads, timerSeq, pendingEffects,
                   currentFrame, timerFrames>>
    /\ OnlyPlayback

(* the updater the timer's callback hands to setCurrentFrame *)
nextFrame(prev, length) == (prev + 1) % length

(* a timer of setInterval fires: setCurrentFrame((prev) => (prev + 1) %    *)
(* frames.length); it can fire between a render and its effects             *)
TimerTick ==
    /\ pbMounted
    /\ \E id \in intervals :
         /\ currentFrame' = nextFrame(currentFrame, timerFrames[id])
         /\ last' = Op("tick", 0, "timer", id)
    /\ UNCHANGED <<pbMounted, playing, frameUris, loads, intervalRef, intervals,
                   timerSeq, pendingEffects, timerFrames, steps>>
    /\ OnlyPlayback

(* skipBack: setCurrentFrame(0) *)
SkipBack ==
    /\ pbMounted
    /\ pendingEffects = {}
    /\ Act
    /\ currentFrame' = 0
    /\ last' = Op("skipBack", 0, "press", 0)
    /\ UNCHANGED <<pbMounted, playing, frameUris, loads, intervalRef, intervals,
                   timerSeq, pendingEffects, timerFrames>>
    /\ OnlyPlayback

(* skipForward: setCurrentFrame(frames.length - 1) *)
SkipForward ==
    /\ pbMounted
    /\ pendingEffects = {}
    /\ Act
    /\ currentFrame' = frameUris - 1
    /\ last' = Op("skipForward", 0, "press", 0)
    /\ UNCHANGED <<pbMounted, playing, frameUris, loads, intervalRef, intervals,
                   timerSeq, pendingEffects, timerFrames>>
    /\ OnlyPlayback

(* the playback screen pushed for the persisted project, rendered once *)
PlaybackScreenInit ==
    /\ issued = {1}
    /\ dirs = {1}
    /\ meta = [i \in ProjectIds |-> IF i = 1 THEN PersistedProject ELSE NoFile]
    /\ frames = [i \in ProjectIds |-> IF i = 1 THEN FrameNames(PersistedFrames) ELSE {}]
    /\ captures = [i \in ProjectIds |-> -1]
    /\ now = 0
    /\ screen = "playback"
    /\ projects = <<PersistedProject>>
    /\ projectId = 1
    /\ project = PersistedProject
    /\ cameraReady = FALSE
    /\ capturing = FALSE
    /\ steps = 0
    /\ faults = 0
    /\ last = Op("mount", 0, "mount", 0)
    /\ VoiceCommandsInit
    /\ PlaybackInit
    /\ MoreInit(PersistedProject)

PlaybackNext ==
    \/ RunPlaybackEffects
    \/ LoadResolves
    \/ TogglePlay
    \/ ProjectChange
    \/ UnmountPlayback
    \/ TimerTick
    \/ SkipBack
    \/ SkipForward

PlaybackSpec == PlaybackScreenInit /\ [][PlaybackNext]_vars

-----------------------------------------------------------------------------
(* Claims about the playback screen *)

(* C19: startPlayback cancels any existing timer before creating a new      *)
(* one, so in every reachable state at most one playback timer is active    *)
(* (the one intervalRef holds), and no timer is active after the screen     *)
(* unmounted or after playback was paused and the effects of the pause ran. *)
C19_Timers ==
    /\ Cardinality(intervals) <= 1
    /\ intervals \subseteq {intervalRef}
    /\ ~pbMounted => intervals = {}
    /\ (pbMounted /\ ~playing /\ pendingEffects = {}) => intervals = {}

C19_Step ==
    timerSeq' # timerSeq => (intervals' = {timerSeq'} /\ intervalRef' = timerSeq')

C19_OneTimer == []C19_Timers /\ [][C19_Step]_vars

C19_Witness ==
    /\ pbMounted /\ playing /\ frameUris = 2
    /\ timerSeq = 2
    /\ intervals = {2}
    /\ intervalRef = 2

-----------------------------------------------------------------------------
(* Claims about failures reaching the user *)

(* C22: when the file copy of a capture or the file delete of a             *)
(* delete-last-frame fails, the screen action that called the store shows   *)
(* the generic failure alert, for the capture action and for the            *)
(* delete-last-frame action alike.                                          *)
C22_FailureAlert ==
    (last.op \in {"capture", "deleteLast"} /\ last.io \in {"copy_fail", "delete_fail"})
        => alert = "Error"

(* C28: on the playback screen the current frame index always lies in      *)
(* 0..max(frames.length - 1, 0), after any sequence of timer ticks,         *)
(* skip-back, skip-forward, play/pause and frame loading.                   *)
C28_IndexInRange ==
    pbMounted =>
        /\ currentFrame >= 0
        /\ currentFrame <= (IF frameUris > 1 THEN frameUris - 1 ELSE 0)

-----------------------------------------------------------------------------
(* src/unnamed/part_005, session by session.  The recognizer runs one       *)
(* session at a time, numbered by sessionSeq.  A session that is over       *)
(* emits 'end'; one that is over because of an error emits 'error' and      *)
(* then 'end'.  The events wait in `events` until their handlers run, and   *)
(* requestPermissionsAsync() is answered in a later step than the press.    *)

EndOf(session) == [type |-> "end", error |-> "", session |-> session]

ErrorOf(session, error) == [type |-> "error", error |-> error, session |-> session]

(* neither the camera screen, the store, the playback screen nor the        *)
(* command dispatch of the hook is touched                                  *)
OnlySessions ==
    UNCHANGED <<issued, dirs, meta, frames, now, screen, projects, projectId, project,
                cameraReady, capturing, alert, faults, captures, playback, overlap,
                located, lastCommand, lastCommandTime, lastCommandRef, callbacks,
                onRef, timers, heard>>

(* startRecognition(): ExpoSpeechRecognitionModule.start(...) begins a new  *)
(* session, which replaces a running one; `cause` is the session whose      *)
(* event handler made the call, 0 when toggleListening made it              *)
startRecognition(cause) ==
    /\ sessionSeq' = sessionSeq + 1
    /\ recognizing' = TRUE
    /\ restarts' = Append(IF cause = 0 THEN restarts
                          ELSE [restarts EXCEPT ![cause] = @ + 1], 0)

(* the event queue after ExpoSpeechRecognitionModule.stop() *)
stop(queue) == IF recognizing THEN Append(queue, EndOf(sessionSeq)) ELSE queue

(* the recognizer ends the running session by itself: silence, a revoked    *)
(* permission, a network failure, or the end of the utterance               *)
SessionEnds ==
    /\ recognizing
    /\ recognizing' = FALSE
    /\ \E cause \in ErrorCodes \cup {"end"} :
         /\ events' = IF cause = "end"
                      THEN Append(events, EndOf(sessionSeq))
                      ELSE events \o <<ErrorOf(sessionSeq, cause), EndOf(sessionSeq)>>
         /\ last' = Op("sessionEnds", sessionSeq, cause, 0)
    /\ did' = Nothing
    /\ UNCHANGED <<isListening, isAvailable, wantsListening, mounted, requests,
                   sessionSeq, restarts, steps>>
    /\ OnlySessions

(* useSpeechRecognitionEvent('end', ...) handles the next event *)
EndEvent ==
    /\ mounted
    /\ events # <<>> /\ Head(events).type = "end"
    /\ Event
    /\ events' = Tail(events)
    /\ IF Restarts(wantsListening)
       THEN /\ startRecognition(Head(events).session)
            /\ did' = Called(<<>>, 1, 0, FALSE)
            /\ UNCHANGED isListening
       ELSE /\ isListening' = FALSE
            /\ did' = Nothing
            /\ UNCHANGED <<sessionSeq, recognizing, restarts>>
    /\ last' = Op("end", Head(events).session, "end", 0)
    /\ UNCHANGED <<isAvailable, wantsListening, mounted, requests>>
    /\ OnlySessions

(* what the permission branch of the 'error' handler leaves in              *)
(* <<isAvailable, wantsListening, isListening>>                             *)
permissionLostKeepsIntent(wants) == <<FALSE, wants, FALSE>>

permissionLost(wants) == <<FALSE, FALSE, FALSE>>

(* useSpeechRecognitionEvent('error', ...) handles the next event *)
ErrorEvent ==
    /\ mounted
    /\ events # <<>> /\ Head(events).type = "error"
    /\ Event
    /\ events' = Tail(events)
    /\ LET error == Head(events).error
       IN  /\ IF Restarts(wantsListening) /\ error = "no-speech"
              THEN /\ startRecognition(Head(events).session)
                   /\ did' = Called(<<>>, 1, 0, FALSE)
                   /\ UNCHANGED <<isAvailable, wantsListening, isListening>>
              ELSE IF PermissionError(error)
              THEN /\ isAvailable' = permissionLost(wantsListening)[1]
                   /\ wantsListening' = permissionLost(wantsListening)[2]
                   /\ isListening' = permissionLost(wantsListening)[3]
                   /\ did' = Nothing
                   /\ UNCHANGED <<sessionSeq, recognizing, restarts>>
              ELSE /\ did' = Nothing
                   /\ UNCHANGED <<isAvailable, wantsListening, isListening,
                                  sessionSeq, recognizing, restarts>>
           /\ last' = Op("error", Head(events).session, error, 0)
    /\ UNCHANGED <<mounted, requests>>
    /\ OnlySessions

(* toggleListening up to its await: the stop branch of lines 117-123, or    *)
(* the call of requestPermissionsAsync()                                    *)
TogglePress ==
    /\ mounted /\ isAvailable
    /\ Event
    /\ IF wantsListening
       THEN /\ wantsListening' = FALSE
            /\ isListening' = FALSE
            /\ events' = stop(events)
            /\ recognizing' = FALSE
            /\ did' = Called(<<>>, 0, 1, FALSE)
            /\ last' = Op("toggle", 0, "stop", 0)
            /\ UNCHANGED requests
       ELSE /\ requests' = requests + 1
            /\ did' = Called(<<>>, 0, 0, TRUE)
            /\ last' = Op("toggle", 0, "asked", 0)
            /\ UNCHANGED <<wantsListening, isListening, events, recognizing>>
    /\ UNCHANGED <<isAvailable, mounted, sessionSeq, restarts>>
    /\ OnlySessions

(* toggleListening after its await, lines 127-134: it does not look at      *)
(* whether the component is still mounted; React drops the state updates    *)
(* of an unmounted component, the ref and the recognizer are written        *)
PermissionAnswer ==
    /\ requests > 0
    /\ Event
    /\ requests' = requests - 1
    /\ \E granted \in BOOLEAN :
         /\ last' = Op("permission", 0, IF granted THEN "granted" ELSE "denied", 0)
         /\ IF ~Granted(granted)
            THEN /\ isAvailable' = IF mounted THEN FALSE ELSE isAvailable
                 /\ did' = Nothing
                 /\ UNCHANGED <<wantsListening, isListening, sessionSeq, recognizing,
                                restarts>>
            ELSE /\ wantsListening' = TRUE
                 /\ isListening' = IF mounted THEN TRUE ELSE isListening
                 /\ startRecognition(0)
                 /\ did' = Called(<<>>, 1, 0, FALSE)
                 /\ UNCHANGED isAvailable
    /\ UNCHANGED <<mounted, events>>
    /\ OnlySessions

(* the clean-up of lines 138-143 on unmount; the listeners of               *)
(* useSpeechRecognitionEvent go with the component                          *)
UnmountHook ==
    /\ mounted
    /\ Event
    /\ mounted' = FALSE
    /\ wantsListening' = FALSE
    /\ events' = stop(events)
    /\ recognizing' = FALSE
    /\ did' = Called(<<>>, 0, 1, FALSE)
    /\ last' = Op("unmount", 0, "unmount", 0)
    /\ UNCHANGED <<isListening, isAvailable, requests, sessionSeq, restarts>>
    /\ OnlySessions

SessionNext ==
    \/ SessionEnds
    \/ EndEvent
    \/ ErrorEvent
    \/ TogglePress
    \/ PermissionAnswer
    \/ UnmountHook

SessionSpec == VoiceInit /\ [][SessionNext]_vars

-----------------------------------------------------------------------------
(* Claims about recognition sessions *)

(* C21: the termination of one recognition session, its no-speech error     *)
(* together with its session-end event, causes at most one automatic        *)
(* restart of recognition.                                                  *)
C21_OneRestart == \A s \in 1..Len(restarts) : restarts[s] <= 1

(* C26: after the hook has been unmounted, recognition is never started     *)
(* again, whatever the order of the unmount, the answer to a pending        *)
(* permission request and the session-end and error events.                 *)
C26_NoStartAfterUnmount == ~mounted => (~recognizing /\ did.starts = 0)

(* C27: while the hook is mounted, isListening equals the listening-intent  *)
(* flag wantsListening, across any sequence of toggles, permission          *)
(* outcomes, session-end events and error events.                           *)
C27_IntentExposed == mounted => (isListening = wantsListening)

C27_Witness ==
    /\ mounted /\ isListening /\ wantsListening
    /\ last.op = "end" /\ did.starts = 1
    /\ sessionSeq = 2
    /\ requests = 1

-----------------------------------------------------------------------------
(* src/utils/storage.ts, lines 92-126: where the store keeps frame n of a   *)
(* project.  A location is the uri of new File(PROJECTS_DIR, projectId,     *)
(* 'frames', name), written here relative to the document directory.        *)

MaxFrameNumber == 999       \* the frame numbers the functions are applied to

FrameNumbers == 1..MaxFrameNumber

(* new File(PROJECTS_DIR, projectId, 'frames', name).uri *)
FileUri(id, name) == "projects/" \o String(id) \o "/frames/" \o name

getFramePathUnpadded(id, frameNumber) ==
    FileUri(id, "frame_" \o String(frameNumber) \o ".jpg")

getFramePath(id, frameNumber) ==
    LET padded == padStart(String(frameNumber), PAD_WIDTH, "0")
    IN  FileUri(id, "frame_" \o padded \o ".jpg")

(* destFile of addFrame, lines 99-100 *)
destFile(id, frameNumber) ==
    LET padded == padStart(String(frameNumber), PAD_WIDTH, "0")
    IN  FileUri(id, "frame_" \o padded \o ".jpg")

(* file of deleteLastFrame, lines 107-108 *)
deleteLastFrameFile(id, frameNumber) ==
    LET padded == padStart(String(frameNumber), PAD_WIDTH, "0")
    IN  FileUri(id, "frame_" \o padded \o ".jpg")

(* file of getFrameUri, lines 115-116 *)
getFrameUriFile(id, frameNumber) ==
    LET padded == padStart(String(frameNumber), PAD_WIDTH, "0")
    IN  FileUri(id, "frame_" \o padded \o ".jpg")

(* getAllFrameUris(projectId, frameCount): uris.push(getFramePath(projectId, i)) *)
getAllFrameUris(id, frameCount) == [i \in 1..frameCount |-> getFramePath(id, i)]

(* a call that addressed frame files *)
Located(op, id, frameNumber, uris) ==
    [op |-> op, projectId |-> id, frameNumber |-> frameNumber, uris |-> uris]

(* nothing but the record of the call changes: none of these expressions    *)
(* reads or writes the file system                                          *)
OnlyLocated ==
    UNCHANGED <<issued, dirs, meta, frames, now, screen, projects, projectId, project,
                cameraReady, capturing, alert, steps, faults, captures, last, hook,
                playback, sessions, overlap>>

GetFramePath ==
    /\ located' = Located("getFramePath", located.projectId, located.frameNumber,
                          <<getFramePath(located.projectId, located.frameNumber)>>)
    /\ OnlyLocated

AddFrameDest ==
    /\ located' = Located("addFrame", located.projectId, located.frameNumber,
                          <<destFile(located.projectId, located.frameNumber)>>)
    /\ OnlyLocated

DeleteLastFrameFile ==
    /\ located' = Located("deleteLastFrame", located.projectId, located.frameNumber,
                          <<deleteLastFrameFile(located.projectId, located.frameNumber)>>)
    /\ OnlyLocated

GetFrameUriFile ==
    /\ located' = Located("getFrameUri", located.projectId, located.frameNumber,
                          <<getFrameUriFile(located.projectId, located.frameNumber)>>)
    /\ OnlyLocated

GetAllFrameUris ==
    /\ located' = Located("getAllFrameUris", located.projectId, located.frameNumber,
                          getAllFrameUris(located.projectId, located.frameNumber))
    /\ OnlyLocated

(* the arguments (projectId, frameNumber) of the calls are drawn at the start *)
PathInit ==
    /\ issued = {1}
    /\ dirs = {1}
    /\ meta = [i \in ProjectIds |-> IF i = 1 THEN PersistedProject ELSE NoFile]
    /\ frames = [i \in ProjectIds |-> IF i = 1 THEN FrameNames(PersistedFrames) ELSE {}]
    /\ captures = [i \in ProjectIds |-> -1]
    /\ now = 0
    /\ screen = "camera"
    /\ projects = <<PersistedProject>>
    /\ projectId = 1
    /\ project = PersistedProject
    /\ cameraReady = TRUE
    /\ capturing = FALSE
    /\ steps = 0
    /\ faults = 0
    /\ last = Op("mount", 0, "mount", 0)
    /\ VoiceCommandsInit
    /\ PlaybackInit
    /\ alert = NoAlert
    /\ SessionsInit
    /\ OverlapInit(PersistedProject)
    /\ \E id \in ProjectIds, frameNumber \in FrameNumbers :
         located = Located("none", id, frameNumber, <<>>)

PathNext ==
    \/ GetFramePath
    \/ AddFrameDest
    \/ DeleteLastFrameFile
    \/ GetFrameUriFile
    \/ GetAllFrameUris

PathSpec == PathInit /\ [][PathNext]_vars

-----------------------------------------------------------------------------
(* Claims about frame locations *)

(* the three decimal digits of n, for n in 0..999 *)
ThreeDigits(n) ==
    ToString(n \div 100) \o ToString((n \div 10) % 10) \o ToString(n % 10)

(* getFramePath on every (projectId, frameNumber) with frameNumber in 1..999 *)
FramePaths == [x \in ProjectIds \X (1..999) |-> getFramePath(x[1], x[2])]

(* C23: getFramePath depends on (projectId, frameNumber) only and names     *)
(* the file frame_NNN.jpg, the number zero-padded to 3 digits; for frame    *)
(* numbers 1..999 distinct (projectId, frameNumber) pairs give distinct     *)
(* locations; addFrame, deleteLastFrame, getFrameUri and getAllFrameUris    *)
(* address frame n at exactly getFramePath(projectId, n).                   *)
C23_FramePath ==
    LET id == located.projectId
        n == located.frameNumber
    IN  /\ located.op \in {"getFramePath", "addFrame", "deleteLastFrame", "getFrameUri"} =>
              located.uris = <<getFramePath(id, n)>>
        /\ located.op = "getAllFrameUris" =>
              /\ Len(located.uris) = n
              /\ \A i \in 1..n : located.uris[i] = getFramePath(id, i)
        /\ (located.op # "none" /\ n \in 1..999) =>
              located.uris[Len(located.uris)] =
                  "projects/" \o ToString(id) \o "/frames/frame_" \o ThreeDigits(n) \o ".jpg"
        /\ (located.op = "getFramePath" /\ n \in 1..999) =>
              \A x \in DOMAIN FramePaths :
                  x # <<id, n>> => FramePaths[x] # located.uris[1]

C23_Witness ==
    /\ located.op = "deleteLastFrame"
    /\ located.projectId = 2
    /\ located.frameNumber = 42
    /\ located.uris = <<"projects/2/frames/frame_042.jpg">>

-----------------------------------------------------------------------------
(* src/unnamed/part_004, handler by handler.  handleCapture runs up to      *)
(* `await takePictureAsync` in one step and resumes in a later one; the     *)
(* awaits of the store functions, which work synchronously, resume before   *)
(* any other event is handled.  A handler works on the `project` and        *)
(* `capturing` of the render that created it.  A press is handled by the    *)
(* handlers of the committed render, and the state it sets is rendered,     *)
(* effects included, before the next event; a voice command is handled by   *)
(* the handlers in the hook's refs, and the state set by it or after an     *)
(* await is rendered later.  Every file operation completes, except that    *)
(* a copy onto an existing file may throw.                                  *)

MaxInFlight == 2     \* captures awaiting their photo at the same time

(* a capture awaiting its photo: the project its handler closed over, and   *)
(* whether a delete-last-frame has run since it started                     *)
Flight(p, deleted) == [project |-> p, deleted |-> deleted]

(* the guards of the handlers, on the values they closed over *)
CaptureGuardOf(h) == h.project # Null /\ ~h.capturing /\ cameraReady

DeleteGuardOf(h) == h.project # Null /\ h.project.frameCount # 0

(* the handlers a render of the current state creates *)
Rendered == Closure(project, capturing)

(* the same command is executed again only after DEBOUNCE_MS, by which time *)
(* the renders and the effects of the first execution have run              *)
NotDebounced(cmd) ==
    lastCommandRef # cmd \/ (handlers = Rendered /\ refHandlers = handlers)

OnlyOverlap ==
    UNCHANGED <<issued, dirs, screen, projects, projectId, cameraReady, faults,
                captures, playback, sessions, located, isListening, isAvailable,
                lastCommand, wantsListening, lastCommandTime, callbacks, onRef,
                timers, mounted, recognizing, did, heard>>

(* handleCapture up to its await, lines 58-63, on the closure h *)
CaptureStart(h) ==
    IF CaptureGuardOf(h)
    THEN /\ capturing' = TRUE                         \* setCapturing(true)
         /\ inFlight' = Append(inFlight, Flight(h.project, FALSE))
         /\ last' = Op("capture", projectId, "start", h.project.frameCount)
    ELSE /\ UNCHANGED <<capturing, inFlight>>
         /\ last' = Op("capture", projectId, "guard", 0)

(* the capture button is pressed *)
PressCapture ==
    /\ screen = "camera"
    /\ Len(inFlight) < MaxInFlight
    /\ refHandlers = handlers
    /\ CaptureStart(handlers)
    /\ handlers' = Closure(project, capturing')
    /\ refHandlers' = handlers'
    /\ UNCHANGED <<frames, meta, now, project, alert, steps, lastCommandRef>>
    /\ OnlyOverlap

(* executeCommand('capture'): onCaptureRef.current() *)
VoiceCapture ==
    /\ screen = "camera"
    /\ Len(inFlight) < MaxInFlight
    /\ NotDebounced("capture")
    /\ lastCommandRef' = "capture"
    /\ CaptureStart(refHandlers)
    /\ UNCHANGED <<frames, meta, now, project, alert, steps, handlers, refHandlers>>
    /\ OnlyOverlap

(* handleCapture after takePictureAsync resolved, lines 68-94, for one of   *)
(* the captures in flight                                                   *)
CaptureResolves ==
    /\ screen = "camera"
    /\ \E i \in 1..Len(inFlight) :
         LET p == inFlight[i].project
             newFrameNum == NewFrameNum(p)
             suffix == IF inFlight[i].deleted THEN "_after_delete" ELSE ""
         IN  /\ inFlight' = SubSeq(inFlight, 1, i - 1) \o SubSeq(inFlight, i + 1, Len(inFlight))
             /\ capturing' = FALSE                    \* setCapturing(false)
             /\ \/ /\ UNCHANGED <<frames, meta, now, project, steps>>   \* no photo
                   /\ alert' = NoAlert
                   /\ last' = Op("capture", projectId, "none", p.frameCount)
                \/ /\ OverCap(newFrameNum)
                   /\ UNCHANGED <<frames, meta, now, project, steps>>
                   /\ alert' = "Maximum Frames"
                   /\ last' = Op("capture", projectId, "max", p.frameCount)
                \/ /\ ~OverCap(newFrameNum)
                   /\ Step
                   /\ \E copy \in CopyOutcomes, updatedAt \in ClockReads :
                        LET c == CaptureCommit(copy = "ok", meta[p.id], p, newFrameNum,
                                               updatedAt, "ok")
                        IN  /\ copy = "fail" => /\ FrameName(newFrameNum) \in frames[p.id]
                                                /\ updatedAt = now
                            /\ frames' = IF copy = "ok"
                                         THEN [frames EXCEPT ![p.id] = addFrame(@, newFrameNum)]
                                         ELSE frames
                            /\ meta' = [meta EXCEPT ![p.id] = c[1]]
                            /\ project' = IF copy = "ok" THEN c[2] ELSE project
                            /\ now' = updatedAt
                            /\ alert' = IF copy = "ok" THEN NoAlert ELSE "Error"
                            /\ last' = Op("capture", projectId,
                                          IF copy = "ok" THEN "ok" \o suffix ELSE "copy_fail",
                                          p.frameCount)
    /\ UNCHANGED <<handlers, refHandlers, lastCommandRef>>
    /\ OnlyOverlap

(* handleDeleteLast, lines 97-114, on the closure h *)
DeleteLast(h) ==
    IF DeleteGuardOf(h)
    THEN LET p == h.project
         IN  /\ Step
             /\ \E updatedAt \in ClockReads :
                  LET c == DeleteCommit(TRUE, meta[p.id], p, updatedAt, "ok")
                  IN  /\ frames' = [frames EXCEPT ![p.id] = deleteLastFrame(@, p.frameCount)]
                      /\ meta' = [meta EXCEPT ![p.id] = c[1]]
                      /\ project' = c[2]
                      /\ now' = updatedAt
             /\ inFlight' = [i \in 1..Len(inFlight) |-> Flight(inFlight[i].project, TRUE)]
             /\ last' = Op("deleteLast", projectId, "ok", p.frameCount)
    ELSE /\ UNCHANGED <<frames, meta, project, now, steps, inFlight>>
         /\ last' = Op("deleteLast", projectId, "guard", 0)

(* the delete button is pressed *)
PressDeleteLast ==
    /\ screen = "camera"
    /\ refHandlers = handlers
    /\ DeleteLast(handlers)
    /\ alert' = NoAlert
    /\ UNCHANGED <<capturing, handlers, refHandlers, lastCommandRef>>
    /\ OnlyOverlap

(* executeCommand('delete'): onDeleteRef.current() *)
VoiceDeleteLast ==
    /\ screen = "camera"
    /\ NotDebounced("delete")
    /\ lastCommandRef' = "delete"
    /\ DeleteLast(refHandlers)
    /\ alert' = NoAlert
    /\ UNCHANGED <<capturing, handlers, refHandlers>>
    /\ OnlyOverlap

(* React renders the state set outside a press: the effects of the render   *)
(* before run first, then the new handlers are committed                    *)
CameraRender ==
    /\ screen = "camera"
    /\ handlers # Rendered
    /\ refHandlers' = handlers
    /\ handlers' = Rendered
    /\ last' = Op("render", projectId, "camera", 0)
    /\ UNCHANGED <<frames, meta, now, project, capturing, alert, steps, inFlight,
                   lastCommandRef>>
    /\ OnlyOverlap

(* the effects of part_005:48-50 run: the refs get the committed handlers *)
CameraEffects ==
    /\ screen = "camera"
    /\ refHandlers # handlers
    /\ refHandlers' = handlers
    /\ last' = Op("effects", projectId, "camera", 0)
    /\ UNCHANGED <<frames, meta, now, project, capturing, alert, steps, inFlight,
                   handlers, lastCommandRef>>
    /\ OnlyOverlap

OverlapNext ==
    \/ PressCapture
    \/ VoiceCapture
    \/ CaptureResolves
    \/ PressDeleteLast
    \/ VoiceDeleteLast
    \/ CameraRender
    \/ CameraEffects

OverlapSpec == VoiceInit /\ [][OverlapNext]_vars

-----------------------------------------------------------------------------
(* Claims about overlapping actions of the camera screen *)

(* C24: when a delete-last-frame action ran while a capture was in flight   *)
(* on the same project, once both have completed the stored frameCount      *)
(* equals the number of frame files present and the files are exactly       *)
(* those numbered 1..frameCount.                                            *)
C24_CountSurvivesOverlap ==
    (last.op = "capture" /\ last.io = "ok_after_delete" /\ inFlight = <<>>) =>
        /\ meta[projectId].kind = "ok"
        /\ frames[projectId] = FrameNames(meta[projectId].frameCount)

(* C25: the capturing flag makes capture non-reentrant: for any             *)
(* interleaving of capture button presses, voice capture commands and       *)
(* re-renders, at most one capture is in flight at a time.                  *)
C25_OneCaptureInFlight == Len(inFlight) <= 1

====
